---- MODULE Spec2Model ----
(***************************************************************************)
(* Model of the batching / polling coordinator of the keyword tool:        *)
(* src/app.py, process_large_keyword_list, with the helpers it calls       *)
(* (clean_keyword, submit_keywords_task, get_task_results).                *)
(*                                                                         *)
(* A keyword is a sequence of one-character strings, so that clean_keyword *)
(* can be computed character by character as the regular expressions do.   *)
(* A Python value that may be None is a sequence of length 0 (None) or 1.  *)
(***************************************************************************)
EXTENDS Integers, Sequences, FiniteSets, TLC

(***************************************************************************)
(* Bounds of the model.  The source fixes batch_size = 500 (app.py:146)    *)
(* and max_attempts = 120 (app.py:194); the model runs the same code with  *)
(* the two numbers scaled down to BatchCap and RoundBudget.                *)
(***************************************************************************)
MaxKeywords == 3
BatchCap == 2
RoundBudget == 3
MaxRenderFaults == 1
MaxPlanKeywords == 6

VARIABLES
    keywords,           \* the argument of process_large_keyword_list
    pc,                 \* position in process_large_keyword_list
    i,                  \* offset of the submission loop (range(0, len, batch_size))
    task_ids,           \* list of (task_id, batch, batch_num)
    sent,               \* batch_num -> the keyword list handed to submit_keywords_task
    completed_batches,
    progress,           \* values given to progress_bar.progress, as numerators over total_batches
    all_results,
    origin,             \* origin[n]: batch_num of the batch all_results[n] was appended for
    pending_bound,      \* whether the local pending_tasks has been assigned
    pending_tasks,
    still_pending,
    attempt,
    idx,                \* position of the for loop over pending_tasks (1-based)
    polls,              \* batch_num -> number of get_task_results calls for the batch
    ip_only,            \* batch_num -> every one of them returned "in_progress"
    sleeps,             \* number of time.sleep calls
    faults,             \* number of exceptions raised by the partial-results preview
    submits,            \* one entry per submit_keywords_task call: batch_num, the batch
                        \* sliced for it, and the task id the call returned
    current_interval,   \* the wait of the current round, as <<numerator, denominator>>
    polled,             \* batch_num of the jobs polled so far in the current round
    lastPoll,           \* the latest iteration of the for loop over pending_tasks: what
                        \* get_task_results returned, what the try body and the except
                        \* handler appended to all_results, whether the job was kept
    single              \* a call of process_keywords(keywords, client): its position, the
                        \* responses of its latest client.post and client.get, its task
                        \* id, polls, sleeps and returned list

vars == <<keywords, pc, i, task_ids, sent, completed_batches, progress, all_results,
          origin, pending_bound, pending_tasks, still_pending, attempt, idx, polls,
          ip_only, sleeps, faults, submits, current_interval, polled, lastPoll, single>>

----------------------------------------------------------------------------
(* Generic helpers. *)

Min(a, b) == IF a <= b THEN a ELSE b

Range(s) == {s[n] : n \in 1..Len(s)}

SeqsUpTo(S, n) == UNION {[1..m -> S] : m \in 0..n}

----------------------------------------------------------------------------
(* clean_keyword, app.py:18-30. *)

WordChars == {"a", "b", "_"}
SpaceChars == {" ", "\t"}
KeptPunctuation == {"-", ".", ",", "?", "!", "&", "'", "\""}

\* re.sub(r'[^\w\s\-.,?!&\'"]', ' ', str(keyword))
ReplaceInvalid(s) ==
    [n \in 1..Len(s) |->
        IF s[n] \in WordChars \cup SpaceChars \cup KeptPunctuation THEN s[n] ELSE " "]

\* re.sub(r'\s+', ' ', cleaned)
RECURSIVE CollapseSpaces(_)
CollapseSpaces(s) ==
    IF s = <<>> THEN <<>>
    ELSE IF Head(s) \in SpaceChars
         THEN IF Len(s) > 1 /\ s[2] \in SpaceChars
              THEN CollapseSpaces(Tail(s))
              ELSE <<" ">> \o CollapseSpaces(Tail(s))
         ELSE <<Head(s)>> \o CollapseSpaces(Tail(s))

\* str.strip()
RECURSIVE Strip(_)
Strip(s) ==
    IF s = <<>> THEN <<>>
    ELSE IF Head(s) \in SpaceChars THEN Strip(Tail(s))
    ELSE IF s[Len(s)] \in SpaceChars THEN Strip(SubSeq(s, 1, Len(s) - 1))
    ELSE s

clean_keyword(keyword) == Strip(CollapseSpaces(ReplaceInvalid(keyword)))

----------------------------------------------------------------------------
(* Result records. *)

Record(k, sv, c, n) == [keyword |-> k, search_volume |-> sv, competition |-> c, note |-> n]

\* {"keyword": k, "search_volume": 0, "competition": 0, "note": note}
Placeholder(k, note) == Record(k, 0, 0, note)

PlaceholdersFor(batch, note) == [n \in 1..Len(batch) |-> Placeholder(batch[n], note)]

----------------------------------------------------------------------------
(* The provider, as seen through RestClient.post / RestClient.get. *)

RawKeywords == {<<"a">>, <<"a", "#", "b">>}

\* A "keyword" value of a provider item that is a JSON array: not hashable in Python.
Unhashable == <<"[]">>

\* Items of a task's "result" list: keyword, search_volume, competition_index.
ItemA == [keyword |-> <<"a">>, search_volume |-> <<7>>, competition_index |-> <<3>>]
ItemAB == [keyword |-> <<"a", " ", "b">>, search_volume |-> <<>>, competition_index |-> <<3>>]
ItemList == [keyword |-> Unhashable, search_volume |-> <<7>>, competition_index |-> <<3>>]

\* The "result" lists a completed task can carry: empty, one item, two items, and
\* one whose keyword is unhashable.
ProviderResults == { <<>>, <<ItemA>>, <<ItemAB>>, <<ItemA, ItemAB>>, <<ItemList>> }

Response(kind, code, tasks) == [kind |-> kind, status_code |-> code, tasks |-> tasks]

Task(code, id, result) == [status_code |-> code, id |-> id, result |-> result]

\* What client.post can do for the batch numbered n: raise, return something that is
\* not a dict, or return a dict with a status code and a task list.
PostResponses(n) ==
    { Response("raise", 0, <<>>),
      Response("invalid", 0, <<>>),
      Response("dict", 50000, <<>>),
      Response("dict", 20000, <<>>),
      Response("dict", 20000, <<Task(20000, <<n>>, <<>>)>>),
      Response("dict", 20000, <<Task(40501, <<n>>, <<>>)>>),
      Response("dict", 20000, <<Task(40501, <<>>, <<>>)>>) }

\* What client.get can do for a task.
GetResponses ==
    { Response("raise", 0, <<>>),
      Response("invalid", 0, <<>>),
      Response("dict", 40401, <<>>),
      Response("dict", 40501, <<>>),
      Response("dict", 50000, <<>>),
      Response("dict", 20000, <<>>),
      Response("dict", 20000, <<Task(40000, <<>>, <<>>)>>) }
    \cup { Response("dict", 20000, <<Task(20000, <<>>, r)>>) :
             r \in ProviderResults }

----------------------------------------------------------------------------
(* submit_keywords_task, app.py:32-74: the task id, or None (<<>>). *)

submit_keywords_task(response) ==
    IF response.kind # "dict" THEN <<>>
    ELSE IF response.status_code = 20000
         THEN IF response.tasks # <<>> THEN response.tasks[1].id ELSE <<>>
         ELSE <<>>

----------------------------------------------------------------------------
(* get_task_results, app.py:76-139: "in_progress", None, or a list of records. *)

InProgress == [kind |-> "in_progress", records |-> <<>>]
NoneResult == [kind |-> "none", records |-> <<>>]
ListResult(rs) == [kind |-> "list", records |-> rs]

\* x if x is not None else 0
OrZero(opt) == IF opt = <<>> THEN 0 ELSE opt[1]

\* app.py:114-124
FormatItem(item) ==
    Record(item.keyword, OrZero(item.search_volume), OrZero(item.competition_index), "")

\* The task-level status code not looked at.
get_task_results_AnyTask(response) ==
    IF response.kind # "dict" THEN NoneResult
    ELSE IF response.status_code = 20000
         THEN IF response.tasks = <<>> THEN NoneResult
              ELSE IF response.tasks[1].result = <<>> THEN ListResult(<<>>)
              ELSE ListResult([n \in 1..Len(response.tasks[1].result) |->
                                  FormatItem(response.tasks[1].result[n])])
    ELSE IF response.status_code = 40401 \/ response.status_code = 40501
         THEN InProgress
    ELSE NoneResult

get_task_results(response) ==
    IF response.kind # "dict" THEN NoneResult
    ELSE IF response.status_code = 20000
         THEN IF response.tasks = <<>> THEN NoneResult
              ELSE IF response.tasks[1].status_code # 20000 THEN NoneResult
              ELSE IF response.tasks[1].result = <<>> THEN ListResult(<<>>)
              ELSE ListResult([n \in 1..Len(response.tasks[1].result) |->
                                  FormatItem(response.tasks[1].result[n])])
    ELSE IF response.status_code = 40401 \/ response.status_code = 40501
         THEN InProgress
    ELSE NoneResult

\* Python truthiness of what get_task_results returned (app.py:248).
Truthy(results) == results.kind = "list" /\ results.records # <<>>

----------------------------------------------------------------------------
(* process_large_keyword_list, app.py:141-330. *)

batch_size == BatchCap

max_attempts == RoundBudget

\* app.py:149
total_batches == (Len(keywords) + batch_size - 1) \div batch_size

\* A slice one item short.
BatchAt_Short(kws, off) == SubSeq(kws, off + 1, Min(off + batch_size - 1, Len(kws)))

\* keywords[i:i + batch_size], app.py:167
BatchAt(kws, off) == SubSeq(kws, off + 1, Min(off + batch_size, Len(kws)))

\* app.py:168
BatchNumAt(off) == (off \div batch_size) + 1

\* app.py:171
CleanedBatch(batch) == [n \in 1..Len(batch) |-> clean_keyword(batch[n])]

\* The triple appended to task_ids, app.py:177.  The batch stored is the one the
\* slice produced, before cleaning.
JobTuple(task_id, batch, batch_num) ==
    [task_id |-> task_id, batch |-> batch, batch_num |-> batch_num]

\* The test dropped: every returned value counts as a task id.
IdTruthy_Any(task_id) == TRUE

\* if task_id: (app.py:176)
IdTruthy(task_id) == task_id # <<>>

\* lastPoll when the for loop over pending_tasks is not running.
NoPoll == [outcome |-> "none", batch_num |-> 0, batch |-> <<>>, attempt |-> 0,
           results |-> <<>>, body |-> <<>>, handler |-> <<>>, raised |-> FALSE,
           kept |-> FALSE]

\* No client call made yet.
NoResponse == Response("none", 0, <<>>)

\* process_keywords before its first statement, app.py:332-334.
SingleStart == [pc |-> "start", submitted |-> <<>>, post |-> NoResponse, task_id |-> <<>>,
                attempt |-> 0, sleeps |-> 0, get |-> NoResponse, polled |-> NoneResult,
                results |-> <<>>]

\* The locals of process_large_keyword_list on entry, app.py:145-160.
InitLocals ==
    /\ single = SingleStart
    /\ pc = "submit"
    /\ i = 0
    /\ task_ids = <<>>
    /\ sent = <<>>
    /\ completed_batches = 0
    /\ progress = 0
    /\ all_results = <<>>
    /\ origin = <<>>
    /\ pending_bound = FALSE
    /\ pending_tasks = <<>>
    /\ still_pending = <<>>
    /\ attempt = 0
    /\ idx = 0
    /\ polls = [b \in 1..total_batches |-> 0]
    /\ ip_only = [b \in 1..total_batches |-> TRUE]
    /\ sleeps = 0
    /\ faults = 0
    /\ submits = <<>>
    /\ current_interval = <<0, 1>>
    /\ polled = <<>>
    /\ lastPoll = NoPoll

Init ==
    /\ keywords \in SeqsUpTo(RawKeywords, MaxKeywords) \ {<<>>}
    /\ InitLocals

\* One iteration of the submission loop, app.py:166-187.
Submit ==
    /\ pc = "submit"
    /\ i < Len(keywords)
    /\ LET batch == BatchAt(keywords, i)
           batch_num == BatchNumAt(i)
           cleaned_batch == CleanedBatch(batch)
       IN  \E response \in PostResponses(batch_num) :
             LET task_id == submit_keywords_task(response) IN
             /\ sent' = Append(sent, cleaned_batch)
             /\ submits' = Append(submits, [batch_num |-> batch_num, batch |-> batch,
                                            task_id |-> task_id])
             /\ IF IdTruthy(task_id)
                THEN /\ task_ids' = Append(task_ids,
                                           JobTuple(task_id, batch, batch_num))
                     /\ UNCHANGED <<all_results, origin, completed_batches, progress>>
                ELSE /\ all_results' = all_results \o
                                       PlaceholdersFor(batch, "Failed to submit task")
                     /\ origin' = origin \o [n \in 1..Len(batch) |-> batch_num]
                     /\ completed_batches' = completed_batches + 1
                     /\ progress' = completed_batches + 1
                     /\ UNCHANGED task_ids
    /\ i' = i + batch_size
    /\ UNCHANGED single
    /\ UNCHANGED <<keywords, pc, pending_bound, pending_tasks, still_pending, attempt,
                   idx, polls, ip_only, sleeps, faults, current_interval, polled,
                   lastPoll>>

\* After the submission loop, app.py:189-206: pending_tasks is assigned only under
\* "if task_ids:".
StartPolling ==
    /\ pc = "submit"
    /\ i >= Len(keywords)
    /\ IF task_ids # <<>>
       THEN /\ pending_tasks' = task_ids
            /\ pending_bound' = TRUE
            /\ attempt' = 0
            /\ pc' = "loop"
       ELSE /\ pc' = "finish"
            /\ UNCHANGED <<pending_tasks, pending_bound, attempt>>
    /\ UNCHANGED single
    /\ UNCHANGED <<keywords, i, task_ids, sent, completed_batches, progress, all_results,
                   origin, still_pending, idx, polls, ip_only, sleeps, faults, submits,
                   current_interval, polled, lastPoll>>

\* The constants of the backoff, app.py:195-196 and app.py:221 (1.2 is 6/5).
poll_interval == 5
max_interval == 30
GrowthNum == 6
GrowthDen == 5
ExponentCap == 10

\* Rationals as <<numerator, denominator>> with a positive denominator and a
\* non-negative numerator, compared by integer parts and then by the reciprocals of
\* the fractional parts, so that no product leaves the integer range.
RECURSIVE LeqQ(_, _)
LeqQ(x, y) ==
    LET qx == x[1] \div x[2]
        rx == x[1] % x[2]
        qy == y[1] \div y[2]
        ry == y[1] % y[2]
    IN  IF qx # qy THEN qx < qy
        ELSE IF rx = 0 THEN TRUE
        ELSE IF ry = 0 THEN FALSE
        ELSE LeqQ(<<y[2], ry>>, <<x[2], rx>>)

\* The backoff without its ceiling.
IntervalAt_NoCeiling(a) ==
    <<poll_interval * GrowthNum ^ Min(ExponentCap, a - 1), GrowthDen ^ Min(ExponentCap, a - 1)>>

\* current_interval = min(max_interval, poll_interval * (1.2 ** min(10, attempt - 1))),
\* app.py:221
\* The exponent capped at half the code's cap.
IntervalAt_EarlyCap(a) ==
    LET k == Min(ExponentCap \div 2, a - 1)
        grown == <<poll_interval * GrowthNum ^ k, GrowthDen ^ k>>
    IN  IF LeqQ(<<max_interval, 1>>, grown) THEN <<max_interval, 1>> ELSE grown

IntervalAt(a) ==
    LET k == Min(ExponentCap, a - 1)
        grown == <<poll_interval * GrowthNum ^ k, GrowthDen ^ k>>
    IN  IF LeqQ(<<max_interval, 1>>, grown) THEN <<max_interval, 1>> ELSE grown

\* The list started afresh: the jobs kept earlier in the round are dropped.
KeepPending_Alone(pending, job) == <<job>>

\* The job put in front of the list instead of at its end.
KeepPending_Front(pending, job) == <<job>> \o pending

\* still_pending.append((task_id, batch, batch_num)), app.py:242 and app.py:306
KeepPending(pending, job) == Append(pending, job)

\* A loop bound off by one: one round too many.
LoopCondition_OneMore(budget) == pending_tasks # <<>> /\ attempt <= budget

\* while pending_tasks and attempt < max_attempts (app.py:208), for a round budget.
LoopCondition(budget) == pending_tasks # <<>> /\ attempt < budget

\* The head of a round, app.py:208-232, for a round budget.
RoundStartWithin(budget) ==
    /\ pc = "loop"
    /\ LoopCondition(budget)
    /\ attempt' = attempt + 1
    /\ current_interval' = IntervalAt(attempt + 1)
    /\ still_pending' = <<>>
    /\ polled' = <<>>
    /\ idx' = 1
    /\ pc' = "poll"
    /\ UNCHANGED single
    /\ UNCHANGED <<keywords, i, task_ids, sent, completed_batches, progress, all_results,
                   origin, pending_bound, pending_tasks, polls, ip_only, sleeps,
                   faults, submits, lastPoll>>

RoundStart == RoundStartWithin(max_attempts)

\* The loop ends, app.py:208, for a round budget.
LoopExitWithin(budget) ==
    /\ pc = "loop"
    /\ ~LoopCondition(budget)
    /\ pc' = "finish"
    /\ UNCHANGED single
    /\ UNCHANGED <<keywords, i, task_ids, sent, completed_batches, progress, all_results,
                   origin, pending_bound, pending_tasks, still_pending, attempt, idx,
                   polls, ip_only, sleeps, faults, submits, current_interval, polled,
                   lastPoll>>

LoopExit == LoopExitWithin(max_attempts)

\* {r["keyword"] for r in results}, app.py:250
processed_keywords(results) == {results[n].keyword : n \in 1..Len(results)}

\* Building that set hashes every keyword: a keyword that is a list raises TypeError.
RaisesTypeError(results) == \E n \in 1..Len(results) : results[n].keyword = Unhashable

\* The membership test dropped: every keyword of the batch is taken as missing.
MissingKeywords_All(batch, processed) == batch

\* The keywords of the batch the loop of app.py:253-254 finds missing, in batch order.
MissingKeywords(batch, processed) == SelectSeq(batch, LAMBDA k : k \notin processed)

\* The list extended into all_results for a truthy result, app.py:248-262.
Reconcile(batch, results) ==
    results \o PlaceholdersFor(MissingKeywords(batch, processed_keywords(results)),
                               "No data found")

\* failed_results, app.py:267-268
FailedResults(batch) == PlaceholdersFor(batch, "Task failed to return results")

\* failed_results of the exception handler, app.py:297-298: f"Error: {str(e)}"
ErrorResults(batch, message) == PlaceholdersFor(batch, message)

\* if attempt >= max_attempts - 1 (app.py:296), for a round budget.
IsLastAttempt(a, budget) == a >= budget - 1

\* One iteration of "for task_id, batch, batch_num in pending_tasks", app.py:233-306.
\* The inputs are what client.get does and whether rendering the partial-results
\* preview (app.py:278-292) raises; budget is the round budget of the loop.
PollJobWithin(budget, response, render_raises) ==
    /\ pc = "poll"
    /\ idx <= Len(pending_tasks)
    /\  LET job == pending_tasks[idx]
             batch == job.batch
             results == get_task_results(response)
             in_progress == results = InProgress
             type_error == Truthy(results) /\ RaisesTypeError(results.records)
             \* what lines 248-271 extend all_results by
             body == IF in_progress \/ type_error THEN <<>>
                     ELSE IF Truthy(results) THEN Reconcile(batch, results.records)
                     ELSE FailedResults(batch)
             counted == ~in_progress /\ ~type_error
             render_fault == counted /\ render_raises /\ Len(all_results \o body) > 0
             raised == type_error \/ render_fault
             message == IF type_error THEN "Error: unhashable type: 'list'"
                        ELSE "Error: preview"
             handler == IF raised /\ IsLastAttempt(attempt, budget)
                        THEN ErrorResults(batch, message) ELSE <<>>
             kept == in_progress \/ (raised /\ ~IsLastAttempt(attempt, budget))
             count == (IF counted THEN 1 ELSE 0)
                      + (IF raised /\ IsLastAttempt(attempt, budget) THEN 1 ELSE 0)
         IN  /\ render_raises => faults < MaxRenderFaults /\ render_fault
             /\ faults' = IF render_fault THEN faults + 1 ELSE faults
             /\ all_results' = all_results \o body \o handler
             /\ origin' = origin \o [n \in 1..(Len(body) + Len(handler)) |-> job.batch_num]
             /\ completed_batches' = completed_batches + count
             /\ progress' = IF count > 0 THEN completed_batches + count ELSE progress
             /\ still_pending' = IF kept THEN KeepPending(still_pending, job)
                                ELSE still_pending
             /\ polled' = Append(polled, job.batch_num)
             /\ polls' = [polls EXCEPT ![job.batch_num] = @ + 1]
             /\ ip_only' = [ip_only EXCEPT ![job.batch_num] = @ /\ in_progress]
             /\ lastPoll' = [outcome |-> IF in_progress THEN "in_progress"
                                         ELSE IF Truthy(results) THEN "list"
                                         ELSE "falsy",
                             batch_num |-> job.batch_num,
                             batch |-> batch,
                             attempt |-> attempt,
                             results |-> results.records,
                             body |-> body,
                             handler |-> handler,
                             raised |-> raised,
                             kept |-> kept]
    /\ idx' = idx + 1
    /\ UNCHANGED single
    /\ UNCHANGED <<keywords, pc, i, task_ids, sent, pending_bound, pending_tasks, attempt,
                   sleeps, submits, current_interval>>

PollJob(response, render_raises) == PollJobWithin(max_attempts, response, render_raises)

Poll == \E response \in GetResponses, render_raises \in BOOLEAN :
            PollJob(response, render_raises)

\* The end of a round, app.py:308-313.
RoundEnd ==
    /\ pc = "poll"
    /\ idx > Len(pending_tasks)
    /\ pending_tasks' = still_pending
    /\ sleeps' = IF still_pending # <<>> THEN sleeps + 1 ELSE sleeps
    /\ pc' = "loop"
    /\ lastPoll' = NoPoll
    /\ UNCHANGED single
    /\ UNCHANGED <<keywords, i, task_ids, sent, completed_batches, progress, all_results,
                   origin, pending_bound, still_pending, attempt, idx, polls, ip_only,
                   faults, submits, current_interval, polled>>

\* timeout_results, app.py:320-321
TimeoutResults(batch) == PlaceholdersFor(batch, "Task timeout - processing took too long")

\* The pending jobs taken last to first.
RECURSIVE TimeoutsOf_Reversed(_)
TimeoutsOf_Reversed(jobs) ==
    IF jobs = <<>> THEN <<>>
    ELSE TimeoutsOf_Reversed(Tail(jobs)) \o TimeoutResults(Head(jobs).batch)

RECURSIVE TimeoutsOf(_)
TimeoutsOf(jobs) ==
    IF jobs = <<>> THEN <<>> ELSE TimeoutResults(Head(jobs).batch) \o TimeoutsOf(Tail(jobs))

RECURSIVE OriginsOf(_)
OriginsOf(jobs) ==
    IF jobs = <<>> THEN <<>>
    ELSE [n \in 1..Len(Head(jobs).batch) |-> Head(jobs).batch_num] \o OriginsOf(Tail(jobs))

\* After the polling block, app.py:315-330.  Reading pending_tasks when it was never
\* assigned raises UnboundLocalError, which leaves the function.
Finish ==
    /\ pc = "finish"
    /\ IF ~pending_bound
       THEN /\ pc' = "raised"
            /\ UNCHANGED <<all_results, origin, completed_batches, progress>>
       ELSE /\ pc' = "returned"
            /\ all_results' = all_results \o TimeoutsOf(pending_tasks)
            /\ origin' = origin \o OriginsOf(pending_tasks)
            /\ completed_batches' = completed_batches + Len(pending_tasks)
            /\ progress' = IF pending_tasks # <<>>
                           THEN completed_batches + Len(pending_tasks) ELSE progress
    /\ UNCHANGED single
    /\ UNCHANGED <<keywords, i, task_ids, sent, pending_bound, pending_tasks,
                   still_pending, attempt, idx, polls, ip_only, sleeps, faults, submits,
                   current_interval, polled, lastPoll>>

Next == Submit \/ StartPolling \/ RoundStart \/ LoopExit \/ Poll \/ RoundEnd \/ Finish

Spec == Init /\ [][Next]_vars

----------------------------------------------------------------------------
(* The planning and submission stage alone (app.py:145-206), on longer lists. *)

InitPlan ==
    /\ keywords \in SeqsUpTo(RawKeywords, MaxPlanKeywords) \ {<<>>}
    /\ InitLocals

NextPlan == Submit \/ StartPolling

SpecPlan == InitPlan /\ [][NextPlan]_vars

\* Reconciliation over a wider provider: one batch of up to MaxReconcileKeywords
\* keywords, and completed tasks whose result lists are all the lists of up to
\* MaxReconcileRecords items about the submitted texts and the raw texts.
MaxReconcileKeywords == 2
MaxReconcileRecords == 3

ReconcileKeywords == RawKeywords \cup {<<"b">>}

ReconcileItems ==
    { [keyword |-> k, search_volume |-> <<7>>, competition_index |-> <<>>] :
        k \in ReconcileKeywords \cup {clean_keyword(k) : k \in ReconcileKeywords} }

InitReconcile ==
    /\ keywords \in SeqsUpTo(ReconcileKeywords, Min(MaxReconcileKeywords, batch_size))
                     \ {<<>>}
    /\ InitLocals

\* One poll of a job whose task has completed, app.py:231-292.
PollCompleted ==
    \E r \in SeqsUpTo(ReconcileItems, MaxReconcileRecords) \ {<<>>} :
        PollJob(Response("dict", 20000, <<Task(20000, <<>>, r)>>), FALSE)

NextReconcile == Submit \/ StartPolling \/ RoundStart \/ PollCompleted

SpecReconcile == InitReconcile /\ [][NextReconcile]_vars

----------------------------------------------------------------------------
(* process_keywords, app.py:332-380: the single-batch path. *)

\* max_attempts of process_keywords, app.py:347
single_max_attempts == 60

\* What the loop body does with the value get_task_results returned, app.py:355-376:
\* go to the next attempt, return the reconciled results, or leave the loop.
SingleDecision(results) ==
    IF results = InProgress THEN "continue"
    ELSE IF Truthy(results) THEN "return"
    ELSE "break"

\* The list returned after the loop, app.py:378-380.
NoDataResults(ks) == PlaceholdersFor(ks, "Timeout or no data")

\* Cleaning, submission and the test of the task id, app.py:337-344.
SingleSubmit ==
    /\ single.pc = "start"
    /\ \E response \in PostResponses(1) :
         LET task_id == submit_keywords_task(response)
         IN  single' = [single EXCEPT
                 !.submitted = CleanedBatch(keywords),
                 !.post = response,
                 !.task_id = task_id,
                 !.pc = IF IdTruthy(task_id) THEN "poll" ELSE "returned",
                 !.results = IF IdTruthy(task_id) THEN <<>>
                             ELSE PlaceholdersFor(keywords, "Failed to submit task")]
    /\ UNCHANGED <<keywords, pc, i, task_ids, sent, completed_batches, progress,
                   all_results, origin, pending_bound, pending_tasks, still_pending,
                   attempt, idx, polls, ip_only, sleeps, faults, submits,
                   current_interval, polled, lastPoll>>

\* One iteration of the for loop, app.py:350-376: sleep, poll, and what follows the
\* poll.  Building the set of processed keywords raises TypeError on an unhashable
\* keyword, and nothing in process_keywords catches it.
SinglePoll ==
    /\ single.pc = "poll"
    /\ single.attempt < single_max_attempts
    /\ \E response \in GetResponses :
         LET results == get_task_results(response)
             decision == SingleDecision(results)
             type_error == decision = "return" /\ RaisesTypeError(results.records)
         IN  single' = [single EXCEPT
                 !.attempt = @ + 1,
                 !.sleeps = @ + 1,
                 !.get = response,
                 !.polled = results,
                 !.pc = IF decision = "continue" THEN "poll"
                        ELSE IF type_error THEN "raised"
                        ELSE "returned",
                 !.results = IF decision = "continue" \/ type_error THEN <<>>
                             ELSE IF decision = "return"
                                  THEN Reconcile(keywords, results.records)
                                  ELSE NoDataResults(keywords)]
    /\ UNCHANGED <<keywords, pc, i, task_ids, sent, completed_batches, progress,
                   all_results, origin, pending_bound, pending_tasks, still_pending,
                   attempt, idx, polls, ip_only, sleeps, faults, submits,
                   current_interval, polled, lastPoll>>

\* The loop ran out of attempts, app.py:350 and app.py:378-380.
SingleExhausted ==
    /\ single.pc = "poll"
    /\ single.attempt >= single_max_attempts
    /\ single' = [single EXCEPT !.pc = "returned", !.results = NoDataResults(keywords)]
    /\ UNCHANGED <<keywords, pc, i, task_ids, sent, completed_batches, progress,
                   all_results, origin, pending_bound, pending_tasks, still_pending,
                   attempt, idx, polls, ip_only, sleeps, faults, submits,
                   current_interval, polled, lastPoll>>

NextSingle == SingleSubmit \/ SinglePoll \/ SingleExhausted

SpecSingle == Init /\ [][NextSingle]_vars

\* The round budget of the code, max_attempts = 120 (app.py:194).
BackoffRounds == 120

\* The polling loop run with the code's round budget while the provider keeps every
\* job in progress: client.get answers every poll with status code 40401 or 40501.
InProgressResponses == {Response("dict", 40401, <<>>), Response("dict", 40501, <<>>)}

RoundStartBackoff == RoundStartWithin(BackoffRounds)

PollInProgress == \E response \in InProgressResponses :
                      PollJobWithin(BackoffRounds, response, FALSE)

LoopExitBackoff == LoopExitWithin(BackoffRounds)

NextBackoff == Submit \/ StartPolling \/ RoundStartBackoff \/ PollInProgress \/ RoundEnd
                   \/ LoopExitBackoff \/ Finish

SpecBackoff == Init /\ [][NextBackoff]_vars

----------------------------------------------------------------------------
(* Definitions used to state the properties. *)

\* The batch numbered b, and whether a job was recorded for it.
BatchOf(b) == BatchAt(keywords, (b - 1) * batch_size)

Submitted(b) == \E n \in 1..Len(task_ids) : task_ids[n].batch_num = b

\* The records of rs whose origin is b, in the order of rs.
RECURSIVE Pick(_, _, _)
Pick(rs, os, b) ==
    IF rs = <<>> THEN <<>>
    ELSE (IF Head(os) = b THEN <<Head(rs)>> ELSE <<>>) \o Pick(Tail(rs), Tail(os), b)

RecordsOf(b) == Pick(all_results, origin, b)

\* The records of rs about keyword k, in the order of rs.
WithKeyword(rs, k) == SelectSeq(rs, LAMBDA r : r.keyword = k)

\* How often k occurs in the keyword list ks.
Occurrences(ks, k) == Cardinality({n \in 1..Len(ks) : ks[n] = k})

Distinct(ks) == \A m, n \in 1..Len(ks) : ks[m] = ks[n] => m = n

\* The latest iteration got a non-empty record list and reconciled it (app.py:248-262).
Reconciled == lastPoll.outcome = "list" /\ ~RaisesTypeError(lastPoll.results)

\* The least k with k * c >= n.
CeilDiv(n, c) == CHOOSE k \in 0..n : k * c >= n /\ (k - 1) * c < n

\* The batches of the first n submit calls, concatenated.
RECURSIVE ConcatBatches(_)
ConcatBatches(n) == IF n = 0 THEN <<>> ELSE ConcatBatches(n - 1) \o submits[n].batch

\* The batches whose submit call returned no task id, among the calls made so far.
FailedSubmissions == {n \in 1..Len(submits) : submits[n].task_id = <<>>}

----------------------------------------------------------------------------
(* Properties. *)

\* The record list rs has exactly one record for every item of the batch; it may hold
\* records for other texts as well.
Covers(rs, batch) == \A k \in Range(batch) : Len(WithKeyword(rs, k)) = 1

\* The terminal states the results show for batch b: Resolved (provider records or
\* "No data found" fills), Failed (failure or error placeholders), TimedOut.
TerminalStates(b) ==
    { IF r.note \in {"", "No data found"} THEN "Resolved"
      ELSE IF r.note = "Task timeout - processing took too long" THEN "TimedOut"
      ELSE "Failed" : r \in Range(RecordsOf(b)) }

\* The timeout placeholders of the first n jobs of the pending list, job after job.
RECURSIVE PendingTimeouts(_)
PendingTimeouts(n) ==
    IF n = 0 THEN <<>>
    ELSE PendingTimeouts(n - 1)
         \o PlaceholdersFor(pending_tasks[n].batch, "Task timeout - processing took too long")

\* The last n elements of s.
LastOf(s, n) == SubSeq(s, Len(s) - n + 1, Len(s))

\* Batch b has a job that is still pending: not yet polled in the current round, or
\* polled and kept for the next one.
PendingNow(b) ==
    /\ pending_bound
    /\ \/ \E n \in 1..Len(pending_tasks) :
              /\ pending_tasks[n].batch_num = b
              /\ pc = "poll" => n >= idx
       \/ /\ pc = "poll"
          /\ \E n \in 1..Len(still_pending) : still_pending[n].batch_num = b

\* Equality of rationals.
EqQ(x, y) == LeqQ(x, y) /\ LeqQ(y, x)

\* min(max_interval, x * 6/5) for a rational x.
GrowOnce(x) ==
    LET grown == <<x[1] * GrowthNum, x[2] * GrowthDen>>
    IN  IF LeqQ(<<max_interval, 1>>, grown) THEN <<max_interval, 1>> ELSE grown

\* The number of items of the submitted batches and failed submissions that have no
\* pending job any more.
RECURSIVE ItemsSettled(_)
ItemsSettled(b) ==
    IF b = 0 THEN 0
    ELSE ItemsSettled(b - 1)
         + (IF b <= Len(submits) /\ ~(pc \in {"loop", "poll"} /\ PendingNow(b))
            THEN Len(BatchOf(b)) ELSE 0)

\* Every provider record list folded so far matched its batch one-to-one: no "No data
\* found" fill was needed and no record is about a text outside its batch.
OneToOne ==
    \A n \in 1..Len(all_results) :
        /\ all_results[n].note # "No data found"
        /\ all_results[n].note = "" =>
               Len(WithKeyword(RecordsOf(origin[n]), all_results[n].keyword))
                   = Occurrences(BatchOf(origin[n]), all_results[n].keyword)

\* C1: the returned list has exactly one record per input item, and every batch
\* contributes exactly as many records as it has items.
C1_Cardinality ==
    pc = "returned" =>
        /\ Len(all_results) = Len(keywords)
        /\ \A b \in 1..total_batches : Len(RecordsOf(b)) = Len(BatchOf(b))

\* C2: when submission fails for every batch, the function returns normally with one
\* "Failed to submit task" placeholder per input item and no poll is made.
C2_AllFailedSubmission ==
    (pc \in {"returned", "raised"} /\ task_ids = <<>>) =>
        /\ pc = "returned"
        /\ all_results = PlaceholdersFor(keywords, "Failed to submit task")
        /\ attempt = 0
        /\ \A b \in 1..total_batches : polls[b] = 0

\* C3: a poll that returns a failure value (neither "in progress" nor a non-empty
\* list) on a round before the final one leaves the job pending and resolves nothing.
C3_ErrorStatusRetried ==
    (lastPoll.outcome = "falsy" /\ lastPoll.attempt < max_attempts) =>
        (lastPoll.kept /\ lastPoll.body = <<>>)

\* C4: when checking a job raises, the job is failed (error placeholders appended)
\* exactly on round max_attempts, and kept pending on every earlier round.
C4_FailedOnlyOnFinalRound ==
    lastPoll.raised =>
        /\ lastPoll.kept <=> lastPoll.attempt < max_attempts
        /\ lastPoll.handler # <<>> <=> lastPoll.attempt = max_attempts

\* C5: a submitted job whose every poll returned "in_progress" has been polled in
\* exactly max_attempts rounds when the function returns, the loop having run exactly
\* max_attempts rounds, and its records are one timeout placeholder per batch item.
C5_TimeoutPath ==
    \A b \in 1..total_batches :
        (pc = "returned" /\ Submitted(b) /\ ip_only[b]) =>
            /\ polls[b] = max_attempts
            /\ attempt = max_attempts
            /\ RecordsOf(b) = PlaceholdersFor(BatchOf(b),
                                              "Task timeout - processing took too long")

C5_Witness ==
    /\ pc = "returned"
    /\ \E b \in 1..total_batches :
         Submitted(b) /\ ip_only[b] /\ polls[b] = max_attempts /\ Len(BatchOf(b)) > 1

\* C6: an item whose cleaned text (the text sent to the provider) differs from its raw
\* text, and for whose cleaned text the provider returned a record, gets no
\* "No data found" placeholder.
C6_MatchOnSubmittedTexts ==
    Reconciled =>
        \A n \in 1..Len(lastPoll.batch) :
            LET raw == lastPoll.batch[n]
                cleaned == sent[lastPoll.batch_num][n]
            IN  (cleaned # raw /\ cleaned \in processed_keywords(lastPoll.results)) =>
                    WithKeyword(lastPoll.body, raw) = <<>>

\* C7: the records appended for a reconciled batch are exactly one per batch item and
\* none of them is about a keyword that is not in the batch.
C7_ReconcilerContract ==
    Reconciled =>
        /\ Len(lastPoll.body) = Len(lastPoll.batch)
        /\ \A n \in 1..Len(lastPoll.body) :
               lastPoll.body[n].keyword \in Range(lastPoll.batch)
        /\ \A k \in Range(lastPoll.batch) :
               Len(WithKeyword(lastPoll.body, k)) = Occurrences(lastPoll.batch, k)

\* The provider returned records for a strict, non-empty subset of a batch of
\* distinct items.
C8_Case ==
    /\ Reconciled
    /\ Distinct(lastPoll.batch)
    /\ processed_keywords(lastPoll.results) \subseteq Range(lastPoll.batch)
    /\ processed_keywords(lastPoll.results) # Range(lastPoll.batch)

\* C8: in that case the reconciled list holds, for every batch item without a provider
\* record, exactly one placeholder (0, 0, "No data found"), and for every item with
\* provider records exactly those records, unchanged.
C8_MissingDataFill ==
    C8_Case =>
        \A k \in Range(lastPoll.batch) :
            WithKeyword(lastPoll.body, k) =
                IF k \in processed_keywords(lastPoll.results)
                THEN WithKeyword(lastPoll.results, k)
                ELSE <<Placeholder(k, "No data found")>>

C8_Witness ==
    /\ C8_Case
    /\ Len(lastPoll.batch) = 2
    /\ lastPoll.body = <<Record(<<"a">>, 7, 3, ""),
                         Placeholder(<<"a", "#", "b">>, "No data found")>>

\* C9: the function never raises, and in the returned list every batch is represented
\* and every record that is not provider data carries a non-empty note.
C9_NoBatchFailureAborts ==
    /\ pc # "raised"
    /\ pc = "returned" =>
         /\ \A b \in 1..total_batches : RecordsOf(b) # <<>>
         /\ \A n \in 1..Len(all_results) :
                all_results[n].note = "" =>
                    all_results[n] \in {FormatItem(ItemA), FormatItem(ItemAB)}

\* C10: the counter given to the progress bar never exceeds total_batches and equals
\* total_batches when the function returns.
C10_ProgressCounter ==
    /\ progress <= total_batches
    /\ completed_batches <= total_batches
    /\ pc = "returned" => progress = total_batches

\* C11: the submission loop slices the list into ceil(N / batch_size) batches numbered
\* 1, 2, ...; every batch but the last has batch_size items, the last has between 1
\* and batch_size; the batches concatenated in order are the input list; and
\* total_batches is the number of batches produced.
C11_BatchPartition ==
    /\ \A n \in 1..Len(submits) :
           /\ submits[n].batch_num = n
           /\ Len(submits[n].batch) \in 1..batch_size
           /\ n < Len(submits) => Len(submits[n].batch) = batch_size
    /\ ConcatBatches(Len(submits)) = SubSeq(keywords, 1, Min(i, Len(keywords)))
    /\ pc # "submit" =>
           /\ Len(submits) = CeilDiv(Len(keywords), batch_size)
           /\ Len(submits) = total_batches
           /\ ConcatBatches(Len(submits)) = keywords

C11_Witness ==
    /\ pc # "submit"
    /\ Len(submits) = 3
    /\ Len(submits[3].batch) < batch_size
    /\ ConcatBatches(3) = keywords

\* C12: the n-th submit call is the one for batch n, with its cleaned keywords, and no
\* call is made once the submission loop is over, when there has been one call per
\* batch; no poll is made before the last call; and a batch whose call returned no
\* task id gets its "Failed to submit task" placeholders and its slot in the counter at
\* once, is not put in task_ids, is never polled and gets no record later.
C12_SubmissionStage ==
    /\ [](pc # "submit" => Len(submits) = total_batches)
    /\ [][/\ (pc = "submit" /\ submits' # submits) =>
                LET n == Len(submits) + 1
                IN  /\ Len(submits') = n
                    /\ Len(sent') = n
                    /\ submits'[n].batch_num = n
                    /\ sent'[n] = CleanedBatch(BatchOf(n))
                    /\ submits'[n].task_id = <<>> =>
                           /\ all_results' = all_results
                                  \o PlaceholdersFor(BatchOf(n), "Failed to submit task")
                           /\ completed_batches' = completed_batches + 1
                           /\ progress' = completed_batches + 1
                           /\ task_ids' = task_ids
          /\ pc # "submit" =>
                /\ submits' = submits
                /\ sent' = sent
                /\ \A n \in (Len(origin) + 1)..Len(origin') :
                       origin'[n] \notin FailedSubmissions
          /\ (pc = "poll" /\ idx' = idx + 1) =>
                /\ Len(submits) = total_batches
                /\ pending_tasks[idx].batch_num \notin FailedSubmissions]_vars

C12_Witness ==
    /\ pc = "returned"
    /\ FailedSubmissions = {1}
    /\ polls[2] = max_attempts

\* C13: from round 1 on, the interval computed for the next round is never smaller
\* than the interval of the current round, and no round's interval exceeds
\* max_interval.
C13_BackoffMonotone ==
    /\ [](LeqQ(current_interval, <<max_interval, 1>>))
    /\ [][(attempt >= 1 /\ attempt' = attempt + 1)
             => LeqQ(current_interval, current_interval')]_vars

C13_Witness ==
    /\ attempt = BackoffRounds
    /\ current_interval = <<max_interval, 1>>

\* C14: when the polled job's batch has distinct items and the provider's record list
\* has exactly one record for each of them, reconciliation adds no placeholder (the
\* records appended for the job are the provider's records) and the set of keywords
\* of the appended records is the set of the batch's items.
C14_IdempotentReconciliation ==
    (/\ lastPoll.outcome = "list"
     /\ ~lastPoll.raised
     /\ Distinct(lastPoll.batch)
     /\ Covers(lastPoll.results, lastPoll.batch))
    => /\ lastPoll.body = lastPoll.results
       /\ \A n \in 1..Len(lastPoll.body) : lastPoll.body[n].note # "No data found"
       /\ processed_keywords(lastPoll.body) = Range(lastPoll.batch)

\* C15: the loop runs at most max_attempts rounds, it is left only with an empty
\* pending list or a spent round budget, no round starts with an empty pending list,
\* and once the function has returned every submitted job is in exactly one of the
\* terminal states Resolved, Failed, TimedOut.
C15_Termination ==
    /\ attempt <= max_attempts
    /\ (pc = "poll" /\ pending_bound) => pending_tasks # <<>>
    /\ (pc \in {"finish", "returned"} /\ pending_bound) =>
           (pending_tasks = <<>> \/ attempt = max_attempts)
    /\ pc = "returned" =>
           \A b \in 1..total_batches :
               Submitted(b) => Cardinality(TerminalStates(b)) = 1

\* C16: no sleep happens inside a round, every sleep is followed by another polling
\* round, and when the loop is over the coordinator has slept once between successive
\* rounds and not after the last one.
C16_SleepPlacement ==
    /\ pc = "poll" => sleeps = attempt - 1
    /\ (pc = "loop" /\ attempt > 0 /\ sleeps = attempt) => LoopCondition(max_attempts)
    /\ (pc \in {"finish", "returned"} /\ pending_bound) => sleeps = attempt - 1

\* C17: within a round the polls made so far are those of the first jobs of the list
\* that was pending when the round started, one poll each and in list order; that list
\* is in strictly ascending batch number; and no job has been polled more often than
\* there have been rounds.
C17_PollingOrder ==
    /\ pc = "poll" =>
           /\ idx \in 1..(Len(pending_tasks) + 1)
           /\ polled = [n \in 1..(idx - 1) |-> pending_tasks[n].batch_num]
    /\ pending_bound =>
           \A m, n \in 1..Len(pending_tasks) :
               m < n => pending_tasks[m].batch_num < pending_tasks[n].batch_num
    /\ \A m, n \in 1..Len(still_pending) :
           m < n => still_pending[m].batch_num < still_pending[n].batch_num
    /\ \A b \in 1..total_batches : polls[b] <= attempt

C17_Witness ==
    /\ pc = "poll"
    /\ attempt = 2
    /\ Len(pending_tasks) = 2
    /\ polled = <<1, 2>>
    /\ polls = <<2, 2>>

\* C18: the records reconciled for a polled job are at the end of the accumulated
\* results as soon as the poll's iteration is over, before the next job is polled, and
\* the records of one job are contiguous in the accumulated results.
C18_IncrementalAppend ==
    /\ Reconciled =>
           /\ lastPoll.body = Reconcile(lastPoll.batch, lastPoll.results)
           /\ Len(all_results) >= Len(lastPoll.body \o lastPoll.handler)
           /\ SubSeq(all_results,
                     Len(all_results) - Len(lastPoll.body \o lastPoll.handler) + 1,
                     Len(all_results)) = lastPoll.body \o lastPoll.handler
    /\ \A m, n, k \in 1..Len(origin) :
           (m < n /\ n < k /\ origin[m] = origin[k]) => origin[n] = origin[m]

\* C19 as stated: in the returned list every record of batch i precedes every record
\* of batch j when i < j.
C19_SubmissionOrder ==
    pc = "returned" =>
        \A m, n \in 1..Len(origin) : m < n => origin[m] <= origin[n]

\* C19: the returned list is in the order of appending.  Every step leaves the records
\* already accumulated in place and appends at the end: the submission of batch n
\* appends records of batch n only, so the placeholders of the batches whose
\* submission failed come first, in batch order; a poll appends records of the polled
\* job only; and the final step appends the timeout placeholders of the jobs still
\* pending, job after job in pending order, no other step writing such a placeholder.
C19_FoldOrder ==
    [][/\ Len(all_results') >= Len(all_results)
       /\ SubSeq(all_results', 1, Len(all_results)) = all_results
       /\ SubSeq(origin', 1, Len(origin)) = origin
       /\ \A n \in (Len(origin) + 1)..Len(origin') :
             /\ pc = "submit" => origin'[n] = Len(submits) + 1
             /\ pc = "poll" => origin'[n] = pending_tasks[idx].batch_num
             /\ pc # "submit" => origin'[n] \notin FailedSubmissions
             /\ pc # "finish" =>
                    all_results'[n].note # "Task timeout - processing took too long"
       /\ pc = "finish" =>
             all_results' = all_results \o PendingTimeouts(Len(pending_tasks))]_vars

C19_Witness ==
    /\ pc = "returned"
    /\ faults = 0
    /\ Len(origin) = 3
    /\ origin[1] = 2
    /\ origin[3] = 1
    /\ all_results[1].note = ""
    /\ all_results[3].note = "Task timeout - processing took too long"

\* C20: a step that polls one job changes the pending status of no other job, no step
\* but the one that starts polling changes the pending status of a job it does not
\* poll, and every step leaves the records already accumulated in place; the records
\* accumulated before the timeout placeholders are written are in the returned list.
C20_CrossJobIndependence ==
    [][/\ \A b \in 1..total_batches :
             (PendingNow(b)' # PendingNow(b)) =>
                 \/ pc = "submit"
                 \/ pc = "poll" /\ idx <= Len(pending_tasks)
                       /\ b = pending_tasks[idx].batch_num
       /\ \A n \in 1..Len(all_results) :
             /\ n <= Len(all_results')
             /\ all_results'[n] = all_results[n]
             /\ origin'[n] = origin[n]
       /\ (pc = "finish" /\ pending_bound) => pc' = "returned"]_vars

C20_Witness ==
    /\ pc = "returned"
    /\ faults = 0
    /\ polls = <<max_attempts, 2>>
    /\ Len(pending_tasks) = 1
    /\ pending_tasks[1].batch_num = 1
    /\ RecordsOf(2) = <<FormatItem(ItemA)>>
    /\ all_results[1] = FormatItem(ItemA)

\* C21: in every round r the interval is min(max_interval, poll_interval * 1.2^(r-1))
\* with poll_interval 5 and max_interval 30, the exponent taken without a cap: the cap
\* of the exponent at 10 changes no value.  The uncapped value is followed round by
\* round: it is poll_interval in round 1, and since
\* min(m, b * g^r) = min(m, min(m, b * g^(r-1)) * g) for g > 1, the value of round r + 1
\* is the value of round r grown once and cut at max_interval.
C21_BackoffFormula ==
    /\ [](poll_interval = 5 /\ max_interval = 30 /\ GrowthNum = 6 /\ GrowthDen = 5)
    /\ [][attempt' = attempt + 1 =>
             EqQ(current_interval',
                 IF attempt' = 1 THEN <<poll_interval, 1>>
                 ELSE GrowOnce(current_interval))]_vars

C21_Witness ==
    /\ attempt - 1 > ExponentCap
    /\ attempt < BackoffRounds
    /\ current_interval = <<max_interval, 1>>

\* C22: the first rounds all wait the base interval: rounds 1 and 2, at the least, use
\* poll_interval, growth starting only after a grace count greater than 1.
C22_GracePeriod ==
    attempt \in 1..2 => EqQ(current_interval, <<poll_interval, 1>>)

\* C23: every poll of process_keywords gets a value from get_task_results: it is
\* "in_progress" exactly when the response is a dict with status code 40401 or 40501,
\* a record list only when the response and its first task both carry 20000, and None
\* for any other status code at either level, a response that is not a dict and a
\* client.get that raised; the only exception a poll ends in is the one raised after
\* get_task_results has returned a list.
C23_PollClassification ==
    single.get # NoResponse =>
        LET r == single.get
            out == single.polled
            in_progress_code == r.kind = "dict" /\ r.status_code \in {40401, 40501}
            success == /\ r.kind = "dict"
                       /\ r.status_code = 20000
                       /\ r.tasks # <<>>
                       /\ r.tasks[1].status_code = 20000
        IN  /\ out \in {InProgress, NoneResult} \/ out.kind = "list"
            /\ out = InProgress <=> in_progress_code
            /\ out.kind = "list" => success
            /\ (~in_progress_code /\ ~success) => out = NoneResult
            /\ single.pc = "raised" => out.kind = "list"

C23_Witness ==
    /\ single.pc = "returned"
    /\ single.get.kind = "dict"
    /\ single.get.status_code = 20000
    /\ single.get.tasks # <<>>
    /\ single.get.tasks[1].status_code # 20000
    /\ single.polled = NoneResult

\* C24: process_keywords gets a task id from submit_keywords_task only when the
\* response and its first task both carry the success code 20000; with any other
\* status code at either level, no id, or a client.post that raised, it gets None,
\* returns the submission-failure placeholders and makes no poll.
C24_SubmitClassification ==
    single.post # NoResponse =>
        LET r == single.post
            success == /\ r.kind = "dict"
                       /\ r.status_code = 20000
                       /\ r.tasks # <<>>
                       /\ r.tasks[1].status_code = 20000
                       /\ r.tasks[1].id # <<>>
        IN  /\ single.task_id # <<>> => success
            /\ ~success =>
                   /\ single.task_id = <<>>
                   /\ single.pc = "returned"
                   /\ single.attempt = 0
                   /\ single.results = PlaceholdersFor(keywords, "Failed to submit task")

\* C25: when a poll made before the last allowed round returns neither "in_progress"
\* nor a non-empty list, the coordinator and process_keywords do opposite things with
\* the job: exactly one of them keeps it and polls again.
C25_OppositeVariants ==
    (lastPoll.outcome = "falsy" /\ lastPoll.attempt < max_attempts) =>
        \A results \in {NoneResult, ListResult(<<>>)} :
            lastPoll.kept # (SingleDecision(results) = "continue")

\* C26: a job whose records were appended in an iteration is not kept pending by that
\* iteration and gets no second set of records from it; no job that is pending while
\* the loop runs has records in the accumulated results; and the pending lists never
\* outgrow the list of submitted jobs and hold no job twice.
C26_FoldedOnce ==
    /\ lastPoll.body # <<>> => (~lastPoll.kept /\ lastPoll.handler = <<>>)
    /\ pc \in {"loop", "poll"} =>
           \A b \in 1..total_batches : PendingNow(b) => RecordsOf(b) = <<>>
    /\ Len(still_pending) <= Len(pending_tasks)
    /\ Len(pending_tasks) <= Len(task_ids)
    /\ \A m, n \in 1..Len(pending_tasks) :
           pending_tasks[m].batch_num = pending_tasks[n].batch_num => m = n
    /\ \A m, n \in 1..Len(still_pending) :
           still_pending[m].batch_num = still_pending[n].batch_num => m = n

\* C27: whenever the loop is at a round boundary, and at return, the batches counted
\* complete and the jobs still pending add up to total_batches, and, provider record
\* lists matching their batches one-to-one, the accumulated results hold as many
\* records as the batches no longer pending have items.
C27_Accounting ==
    /\ (pc = "loop" /\ pending_bound) =>
           /\ completed_batches + Len(pending_tasks) = total_batches
           /\ OneToOne => Len(all_results) = ItemsSettled(total_batches)
    /\ pc = "returned" =>
           /\ completed_batches = total_batches
           /\ OneToOne => Len(all_results) = Len(keywords)

\* C28: process_keywords never ends in an exception; it makes at most
\* single_max_attempts polls and has slept once before each of them; and when the
\* submission failed, every poll said "in_progress", or the last poll returned None or
\* an empty list, the list it returns has one placeholder per input keyword, in input
\* order, with zero metrics and a non-empty note.
C28_SingleBatchPath ==
    /\ single.pc # "raised"
    /\ single.attempt <= single_max_attempts
    /\ single.sleeps = single.attempt
    /\ (single.pc = "returned"
          /\ (single.task_id = <<>> \/ ~Truthy(single.polled))) =>
           /\ Len(single.results) = Len(keywords)
           /\ \A n \in 1..Len(keywords) :
                  /\ single.results[n].keyword = keywords[n]
                  /\ single.results[n].search_volume = 0
                  /\ single.results[n].competition = 0
                  /\ single.results[n].note # ""

====
